---- MODULE Spec2Model ----
(***************************************************************************)
(* Capture / replay of a timely-dataflow stream                            *)
(* (src/dataflow/operators/capture.rs).                                    *)
(*                                                                         *)
(* The module models                                                       *)
(*   - Event, the recorded unit (Start / Progress / Messages);             *)
(*   - the shared in-memory log Rc<EventLink>, as an array of nodes with   *)
(*     a successor index, and the handles into it;                         *)
(*   - CaptureOperator and ReplayOperator, one action per Operate method;  *)
(*   - EventWriter / EventReader over a byte stream.                       *)
(*                                                                         *)
(* Specifications:                                                         *)
(*   Spec        CaptureOperator and ReplayOperator over the in-memory log *)
(*   SpecLink    the bare log: one producer handle, two consumer handles   *)
(*   SpecStream  EventWriter -> byte stream -> EventReader                 *)
(*   SpecA       the run of tests::handle, records 0..9 at time 0, with    *)
(*               the scheduler's fairness                                  *)
(***************************************************************************)
EXTENDS Integers, Sequences, FiniteSets, TLC

\* ------------------------------------------------------------------ bounds

MaxRecords == 3     \* records the upstream sends in Spec
MaxBatch == 2       \* records in one input batch
MaxEvents == 3      \* events pushed to a log
MaxPolls == 3       \* next() calls followed inside one get_internal_summary
MaxWrites == 2      \* events pushed to an EventWriter
MaxBatchesA == 3    \* batches the source of SpecA splits its records into

\* ------------------------------------------------------------------ inputs

Times == {0, 1}         \* the timestamps T
Deltas == {-1, 0, 1}    \* the change of one timestamp in a delivered batch

VARIABLES
    links,       \* the EventLink nodes: links[i] = [event, next], next = 0 for None
    handle1,     \* the producer handle (CaptureOperator.events): a node index
    cursor,      \* the consumer handles: cursor[1] is ReplayOperator.events
    counts,      \* the scheduler's counts[0] as the capture handlers leave it
    delivered,   \* per time, the sum of the deltas the scheduler has delivered
                 \* to the capture handlers in counts[0]
    input,       \* batches waiting in CaptureOperator.input
    sent,        \* records the upstream has sent so far (they are numbered)
    consumed,    \* consumed[0] as reported by CaptureOperator
    summarySet,  \* set_external_summary has been called
    firstPull,   \* "none", or whether the first capture pull came "before"
                 \* or "after" set_external_summary
    capRet,      \* <<>> or <<b>>: the last result of Capture pull_internal_progress
    rstate,      \* ReplayOperator: "new", "spin" (inside get_internal_summary), "run"
    polls,       \* next() calls made by the current / last replay handler
    initial,     \* the counts get_internal_summary returned
    internal,    \* internal[0], accumulated over the pull_internal_progress calls
    output,      \* the <<time, record>> pairs given to the output sessions
    produced,    \* produced[0], accumulated
    repRet,      \* <<>> or <<b>>: the last result of Replay pull_internal_progress
    lastRet,     \* SpecLink: per consumer, <<>> (none) or <<event>> of its last next()
    seen,        \* SpecLink: per consumer, the events its next() calls returned
    clonedAt,    \* SpecLink: the node the consumers were cloned from, 0 before
    wbuffer,     \* EventWriter.buffer
    stream,      \* every byte written to EventWriter.stream, in order
    written,     \* the events pushed to the EventWriter by pushes that returned
    writes,      \* write_all calls the EventWriter has made on its stream
    wpanic,      \* a push of the EventWriter has panicked
    srcPos,      \* bytes of the stream the reader's source has handed out
    buff1,       \* EventReader.buff1
    buff2,       \* EventReader.buff2
    rdConsumed,  \* EventReader.consumed
    valid,       \* EventReader.valid
    readRet,     \* <<>> (none) or <<event>>: the last result of EventReader.next
    lastRead,    \* the read the last EventReader.next made on its source:
                 \* "none" (it made no read), "ok" or "err"
    decoded,     \* the events EventReader.next has returned
    maxRead      \* the largest number of bytes one read has returned so far

linkVars == <<links, handle1, cursor>>
captureVars == <<counts, delivered, input, sent, consumed, summarySet, firstPull, capRet>>
replayVars == <<rstate, polls, initial, internal, output, produced, repRet>>
rawVars == <<lastRet, seen, clonedAt>>
writerVars == <<wbuffer, stream, written, writes, wpanic>>
readerVars ==
    <<srcPos, buff1, buff2, rdConsumed, valid, readRet, lastRead, decoded, maxRead>>
streamVars == <<writerVars, readerVars>>
vars == <<linkVars, captureVars, replayVars, rawVars, streamVars>>

\* ------------------------------------------------------------------ Event

Start == [tag |-> "Start"]
Progress(vec) == [tag |-> "Progress", updates |-> vec]
Messages(time, data) == [tag |-> "Messages", time |-> time, data |-> data]

\* ------------------------------------------------------------------ CountMap

ZeroMap == [t \in Times |-> 0]

Update(m, t, d) == [m EXCEPT ![t] = @ + d]

\* into_inner: the (time, count) pairs of the map, one per time with a count.
RECURSIVE InnerOf(_, _)
InnerOf(m, ts) ==
    IF ts = {} THEN <<>>
    ELSE LET t == CHOOSE x \in ts : \A y \in ts : x <= y
         IN  (IF m[t] # 0 THEN << <<t, m[t]>> >> ELSE <<>>) \o InnerOf(m, ts \ {t})

IntoInner(m) == InnerOf(m, Times)

\* for &(ref time, delta) in vec { map.update(time, delta) }
RECURSIVE UpdateAll(_, _)
UpdateAll(m, vec) ==
    IF vec = <<>> THEN m
    ELSE UpdateAll(Update(m, vec[1][1], vec[1][2]), Tail(vec))

\* ------------------------------------------------------------------ EventLink

NewLink == [event |-> Start, next |-> 0]

\* A push that links the new node after the first node of the log.
LinkPushAtHead(ls, h, e) ==
    [links |-> [Append(ls, [event |-> e, next |-> 0]) EXCEPT ![1].next = Len(ls) + 1],
     handle |-> Len(ls) + 1]

\* EventPusher::push for Rc<EventLink>: the new node becomes the successor of
\* the node the handle holds, and the handle moves to it.
LinkPush(ls, h, e) ==
    [links |-> [Append(ls, [event |-> e, next |-> 0]) EXCEPT ![h].next = Len(ls) + 1],
     handle |-> Len(ls) + 1]

RECURSIVE LinkPushAll(_, _, _)
LinkPushAll(ls, h, es) ==
    IF es = <<>> THEN [links |-> ls, handle |-> h]
    ELSE LET r == LinkPush(ls, h, es[1])
         IN  LinkPushAll(r.links, r.handle, Tail(es))

\* A next() that takes the successor link out of the node it leaves.
LinkNextTake(ls, h) ==
    IF ls[h].next # 0
    THEN [links |-> [ls EXCEPT ![h].next = 0],
          handle |-> ls[h].next, ret |-> <<ls[ls[h].next].event>>]
    ELSE [links |-> ls, handle |-> h, ret |-> <<>>]

\* A next() that returns the successor's event without moving the handle.
LinkNextNoAdvance(ls, h) ==
    IF ls[h].next # 0
    THEN [links |-> ls, handle |-> h, ret |-> <<ls[ls[h].next].event>>]
    ELSE [links |-> ls, handle |-> h, ret |-> <<>>]

\* EventIterator::next for Rc<EventLink>: the nodes after the call, the
\* handle after the call, and the result, <<>> for None.
LinkNext(ls, h) ==
    IF ls[h].next # 0
    THEN [links |-> ls, handle |-> ls[h].next, ret |-> <<ls[ls[h].next].event>>]
    ELSE [links |-> ls, handle |-> h, ret |-> <<>>]

\* The events of the nodes after node h, in chain order.
RECURSIVE Chain(_, _)
Chain(ls, h) ==
    IF ls[h].next = 0 THEN <<>>
    ELSE <<ls[ls[h].next].event>> \o Chain(ls, ls[h].next)

\* ------------------------------------------------------------------ CaptureOperator

\* The replay thread is inside get_internal_summary's loop.  The log is an Rc,
\* so producer and consumer live on one thread: nothing else runs meanwhile.
Blocked == rstate = "spin"

\* Events pushed or waiting to be pushed: the model's cap on the log.
Committed == (Len(links) - 1) + Len(input)

CountMaps == [Times -> Deltas]

Batch(from, k) == [i \in 1..k |-> from + (i - 1)]

\* The upstream delivers the next k records, as one batch at time t.
Arrive(t, k, maxRecords, maxEvents) ==
    /\ ~Blocked
    /\ sent + k <= maxRecords
    /\ Committed < maxEvents
    /\ input' = Append(input, [time |-> t, data |-> Batch(sent, k)])
    /\ sent' = sent + k
    /\ UNCHANGED <<linkVars, counts, delivered, consumed, summarySet, firstPull,
                   capRet, replayVars, rawVars, streamVars>>

InputArrive(t, k) == Arrive(t, k, MaxRecords, MaxEvents)

\* A handler that pushes the Progress event and leaves counts[0] as it is.
ProgressPushKeep(c) ==
    LET r == LinkPush(links, handle1, Progress(IntoInner(c)))
    IN  /\ links' = r.links
        /\ handle1' = r.handle
        /\ counts' = c

\* self.events.push(Event::Progress(counts[0].clone().into_inner())); counts[0].clear();
\* c is counts[0] when the handler is called.
ProgressPush(c) ==
    LET r == LinkPush(links, handle1, Progress(IntoInner(c)))
    IN  /\ links' = r.links
        /\ handle1' = r.handle
        /\ counts' = ZeroMap

NoProgressPush(c) ==
    /\ UNCHANGED <<links, handle1>>
    /\ counts' = ZeroMap

SummaryPush(c) == ProgressPush(c)

\* set_external_summary, called after the scheduler has added the deltas c to
\* what the last handler left in counts[0].
SetExternalSummary(c) ==
    /\ ~Blocked
    /\ ~summarySet
    /\ SummaryPush([t \in Times |-> counts[t] + c[t]])
    /\ delivered' = [t \in Times |-> delivered[t] + c[t]]
    /\ summarySet' = TRUE
    /\ UNCHANGED <<cursor, input, sent, consumed, firstPull, capRet,
                   replayVars, rawVars, streamVars>>

\* push_external_progress, called after the scheduler has added the deltas c
\* to what the last handler left in counts[0].
PushExternalProgress(c) ==
    /\ ~Blocked
    /\ ProgressPush([t \in Times |-> counts[t] + c[t]])
    /\ delivered' = [t \in Times |-> delivered[t] + c[t]]
    /\ UNCHANGED <<cursor, input, sent, consumed, summarySet, firstPull, capRet,
                   replayVars, rawVars, streamVars>>

\* A counter that counts one for every batch pulled, whatever its length.
RECURSIVE CountBatchesOnce(_, _)
CountBatchesOnce(m, batches) ==
    IF batches = <<>> THEN m
    ELSE CountBatchesOnce(Update(m, batches[1].time, 1), Tail(batches))

\* PullCounter: every batch pulled adds (time, len) to the counter, which
\* pull_progress moves into consumed[0].
RECURSIVE CountBatches(_, _)
CountBatches(m, batches) ==
    IF batches = <<>> THEN m
    ELSE CountBatches(Update(m, batches[1].time, Len(batches[1].data)), Tail(batches))

CaptureFinished == FALSE

\* CaptureOperator::pull_internal_progress
CapturePull ==
    /\ ~Blocked
    /\ LET es == [i \in 1..Len(input) |-> Messages(input[i].time, input[i].data)]
           r == LinkPushAll(links, handle1, es)
       IN  /\ links' = r.links
           /\ handle1' = r.handle
    /\ consumed' = CountBatches(consumed, input)
    /\ input' = <<>>
    /\ capRet' = <<CaptureFinished>>
    /\ firstPull' = IF firstPull # "none" THEN firstPull
                    ELSE IF summarySet THEN "after" ELSE "before"
    /\ UNCHANGED <<cursor, counts, delivered, sent, summarySet, replayVars, rawVars,
                   streamVars>>

\* ------------------------------------------------------------------ ReplayOperator

InitialCountsDropped(e) == ZeroMap

InitialCounts(e) ==
    IF e.tag = "Progress" THEN UpdateAll(ZeroMap, e.updates) ELSE ZeroMap

\* A poll that looks at the next event without moving the handle.
SummaryPollPeek(n) ==
    LET r == LinkNext(links, cursor[1])
    IN  /\ polls' = n + 1
        /\ cursor' = cursor
        /\ links' = r.links
        /\ IF r.ret # <<>>
           THEN /\ initial' = InitialCounts(r.ret[1])
                /\ rstate' = "run"
           ELSE /\ initial' = initial
                /\ rstate' = "spin"
        /\ UNCHANGED <<handle1, captureVars, internal, output, produced,
                       repRet, rawVars, streamVars>>

\* One turn of get_internal_summary's loop: n is the number of next() calls
\* made so far in this call.
SummaryPoll(n) ==
    LET r == LinkNext(links, cursor[1])
    IN  /\ polls' = n + 1
        /\ cursor' = [cursor EXCEPT ![1] = r.handle]
        /\ links' = r.links
        /\ IF r.ret # <<>>
           THEN /\ initial' = InitialCounts(r.ret[1])
                /\ rstate' = "run"
           ELSE /\ initial' = initial
                /\ rstate' = "spin"
        /\ UNCHANGED <<handle1, captureVars, internal, output, produced,
                       repRet, rawVars, streamVars>>

\* ReplayOperator::get_internal_summary is called.
GetInternalSummary ==
    /\ rstate = "new"
    /\ SummaryPoll(0)

\* The loop goes round once more.
SpinInternalSummary ==
    /\ rstate = "spin"
    /\ polls < MaxPolls
    /\ SummaryPoll(polls)

\* session.give(datum.clone()) for each datum of the batch, in order
GiveReversed(out, time, data) ==
    out \o [i \in 1..Len(data) |-> <<time, data[Len(data) + 1 - i]>>]

Give(out, time, data) ==
    out \o [i \in 1..Len(data) |-> <<time, data[i]>>]

\* A replay whose output counter does not count the records it is given.
ReplayEventUncounted(st, e) ==
    CASE e.tag = "Start" -> st
      [] e.tag = "Progress" ->
            [st EXCEPT !.internal = UpdateAll(@, e.updates)]
      [] e.tag = "Messages" ->
            [st EXCEPT !.output = Give(@, e.time, e.data)]

\* The body of the match in pull_internal_progress, on the drain state
\* st = [links, handle, internal, output, produced, polls].
ReplayEvent(st, e) ==
    CASE e.tag = "Start" -> st
      [] e.tag = "Progress" ->
            [st EXCEPT !.internal = UpdateAll(@, e.updates)]
      [] e.tag = "Messages" ->
            [st EXCEPT !.output = Give(@, e.time, e.data),
                       !.produced = Update(@, e.time, Len(e.data))]

\* while let Some(event) = self.events.next() { ... }
RECURSIVE Drain(_)

\* The loop from a call of next() that gave r in the drain state s.
DrainFrom(s, r) ==
    IF r.ret = <<>> THEN [s EXCEPT !.links = r.links, !.polls = @ + 1]
    ELSE Drain([ReplayEvent(s, r.ret[1]) EXCEPT !.links = r.links,
                                                !.handle = r.handle,
                                                !.polls = @ + 1])

\* (The drain state is bound to a value before it is used, so that it is
\* evaluated once per turn.)
Drain(st) ==
    CHOOSE out \in {DrainFrom(s, LinkNext(s.links, s.handle)) : s \in {st}} : TRUE

ReplayFinishedWhenDrained == links[cursor[1]].next = 0 /\ output # <<>>

ReplayFinished == FALSE

\* ReplayOperator::pull_internal_progress
ReplayPull ==
    /\ rstate = "run"
    /\ \E st \in {Drain([links |-> links, handle |-> cursor[1],
                          internal |-> internal, output |-> output,
                          produced |-> produced, polls |-> 0])} :
           /\ links' = st.links
           /\ cursor' = [cursor EXCEPT ![1] = st.handle]
           /\ internal' = st.internal
           /\ output' = st.output
           /\ produced' = st.produced
           /\ polls' = st.polls
    /\ repRet' = <<ReplayFinished>>
    /\ UNCHANGED <<handle1, captureVars, rstate, initial, rawVars, streamVars>>

\* ------------------------------------------------------------------ Spec

\* capture_into(handle1), handle2.replay_into(scope): both operators are built
\* on a fresh EventLink::new() before anything runs.
Init ==
    /\ links = <<NewLink>>
    /\ handle1 = 1
    /\ cursor = [c \in 1..2 |-> 1]
    /\ counts = ZeroMap
    /\ delivered = ZeroMap
    /\ input = <<>>
    /\ sent = 0
    /\ consumed = ZeroMap
    /\ summarySet = FALSE
    /\ firstPull = "none"
    /\ capRet = <<>>
    /\ rstate = "new"
    /\ polls = 0
    /\ initial = ZeroMap
    /\ internal = ZeroMap
    /\ output = <<>>
    /\ produced = ZeroMap
    /\ repRet = <<>>
    /\ lastRet = [c \in 1..2 |-> <<>>]
    /\ seen = [c \in 1..2 |-> <<>>]
    /\ clonedAt = 0
    /\ wbuffer = <<>>
    /\ stream = <<>>
    /\ written = <<>>
    /\ writes = 0
    /\ wpanic = FALSE
    /\ srcPos = 0
    /\ buff1 = <<>>
    /\ buff2 = <<>>
    /\ rdConsumed = 0
    /\ valid = 0
    /\ readRet = <<>>
    /\ lastRead = "none"
    /\ decoded = <<>>
    /\ maxRead = 0

Next ==
    \/ \E t \in Times, k \in 1..MaxBatch : InputArrive(t, k)
    \/ \E c \in CountMaps : Committed < MaxEvents /\ SetExternalSummary(c)
    \/ \E c \in CountMaps : Committed < MaxEvents /\ PushExternalProgress(c)
    \/ CapturePull
    \/ GetInternalSummary
    \/ SpinInternalSummary
    \/ ReplayPull

Spec == Init /\ [][Next]_vars

\* ------------------------------------------------------------------ properties of Spec

\* The events pushed to the log so far, in push order: nodes are numbered as
\* they are created, node 1 being the EventLink::new() the handles start on.
LogEvents == [i \in 1..(Len(links) - 1) |-> links[i + 1].event]

FirstIsProgress == LogEvents # <<>> /\ LogEvents[1].tag = "Progress"

\* Replay is past its negotiation and holds the last node of the log.
Drained == rstate = "run" /\ links[cursor[1]].next = 0

\* The <<time, record>> pairs of the Messages events of es, in order.
RECURSIVE RecordsOf(_)
RecordsOf(es) ==
    IF es = <<>> THEN <<>>
    ELSE (IF es[1].tag = "Messages"
          THEN [i \in 1..Len(es[1].data) |-> <<es[1].time, es[1].data[i]>>]
          ELSE <<>>) \o RecordsOf(Tail(es))

RECURSIVE SumPairs(_, _)
SumPairs(t, vec) ==
    IF vec = <<>> THEN 0
    ELSE (IF vec[1][1] = t THEN vec[1][2] ELSE 0) + SumPairs(t, Tail(vec))

\* The sum of the deltas for time t carried by the Progress events of es.
RECURSIVE SumFor(_, _)
SumFor(t, es) ==
    IF es = <<>> THEN 0
    ELSE (IF es[1].tag = "Progress" THEN SumPairs(t, es[1].updates) ELSE 0)
         + SumFor(t, Tail(es))

\* The events Replay has taken from the log after the first one.
TakenAfterFirst == SubSeq(LogEvents, 2, cursor[1] - 1)

\* C1: for a log whose first event is a Progress, once Replay has drained the
\* log its output is, in order and with nothing lost or repeated, the
\* concatenation of the batches of the Messages events Capture pushed.
C1_RoundTrip ==
    (FirstIsProgress /\ Drained) => output = RecordsOf(LogEvents)

\* Two Messages events at different times follow the initial Progress and
\* have been replayed.
C1_Witness ==
    /\ FirstIsProgress /\ Drained
    /\ Len(LogEvents) = 3
    /\ LogEvents[2].tag = "Messages" /\ LogEvents[3].tag = "Messages"
    /\ LogEvents[2].time # LogEvents[3].time
    /\ Len(output) = 3

\* C2: conservation.  Once Replay has drained the log, for every time t the
\* counts get_internal_summary returned plus the deltas added to internal[0]
\* equal the sum of the deltas for t of all Progress events pushed.
C2_Conservation ==
    Drained => \A t \in Times : initial[t] + internal[t] = SumFor(t, LogEvents)

\* Progress reached Replay both through the negotiation and through a pull.
C2_Witness ==
    /\ Drained
    /\ initial # ZeroMap /\ internal # ZeroMap
    /\ \E t \in Times : SumFor(t, LogEvents) # 0

\* C6: every replay handler returns after a number of next() calls bounded by
\* the events enqueued: one per event, and the one that finds no successor.
C6_BoundedPolls == polls <= (Len(links) - 1) + 1

\* C7: when set_external_summary is called before the first capture pull,
\* the first event of the log is a Progress: no Messages precedes it.
C7_InitialProgress ==
    (firstPull # "before" /\ LogEvents # <<>>) => LogEvents[1].tag = "Progress"

\* Capture has pulled batches after its set_external_summary.
C7_Witness ==
    /\ firstPull = "after"
    /\ \E i \in 1..Len(LogEvents) : LogEvents[i].tag = "Messages"

\* C9: no pull_internal_progress call of either operator returns true.
C9_NeverFinished == capRet # <<TRUE>> /\ repRet # <<TRUE>>

\* Both operators have reported, with the input exhausted, the log drained,
\* records replayed and every capability retired.
C9_Witness ==
    /\ capRet = <<FALSE>> /\ repRet = <<FALSE>>
    /\ input = <<>> /\ Drained /\ output # <<>>
    /\ initial # ZeroMap
    /\ \A t \in Times : initial[t] + internal[t] = 0

\* C10: the negotiation takes exactly one event, the first of the log; a
\* Progress gives the returned counts, anything else gives empty counts and is
\* dropped; nothing is emitted by the negotiation, and all that is emitted or
\* accumulated later comes from the events after the first.
C10_Negotiation ==
    /\ [][(rstate # "run" /\ rstate' = "run") =>
            /\ cursor[1] = 1
            /\ cursor'[1] = links[1].next
            /\ initial' = [t \in Times |-> SumFor(t, <<LogEvents[1]>>)]
            /\ output' = output /\ internal' = internal /\ produced' = produced
         ]_vars
    /\ [](rstate = "run" =>
            /\ output = RecordsOf(TakenAfterFirst)
            /\ \A t \in Times : internal[t] = SumFor(t, TakenAfterFirst))

\* The first event was a Messages event; a later one has been replayed.
C10_Witness ==
    /\ Drained
    /\ LogEvents[1].tag = "Messages"
    /\ initial = ZeroMap
    /\ output # <<>>

\* The number of events pushed to the log so far.
Pushed == Len(links) - 1

\* The last event pushed to the log.
LastPushed == links[Len(links)].event

\* C11 (the deltas c a call was given are those by which delivered grows):
\* each call of set_external_summary or push_external_progress pushes
\* exactly one event, a Progress whose deltas are those counts[0] holds at the
\* call (with no delta when counts[0] is empty), and leaves counts[0] empty;
\* so at all times the deltas of the Progress events pushed sum, per time, to
\* the deltas the scheduler delivered.
C11_ReportedOnce ==
    /\ [][\A c \in {[t \in Times |-> delivered'[t] - delivered[t]]} \cap CountMaps :
            (SetExternalSummary(c) \/ PushExternalProgress(c)) =>
                /\ Pushed' = Pushed + 1
                /\ SubSeq(LogEvents', 1, Pushed) = LogEvents
                /\ LastPushed'.tag = "Progress"
                /\ \A t \in Times :
                      SumPairs(t, LastPushed'.updates) = counts[t] + c[t]
                /\ (\A t \in Times : counts[t] + c[t] = 0) =>
                      LastPushed'.updates = <<>>
                /\ counts' = ZeroMap
         ]_vars
    /\ [](\A t \in Times : SumFor(t, LogEvents) = delivered[t])

\* An empty batch and two batches for the same time have been delivered, each
\* pushed as one Progress event.
C11_Witness ==
    /\ Pushed = 3
    /\ \A i \in 1..3 : LogEvents[i].tag = "Progress"
    /\ LogEvents[2].updates = <<>>
    /\ delivered[0] = 2
    /\ SumFor(0, LogEvents) = 2
    /\ counts = ZeroMap

\* The events pushed by the step being taken.
NewEvents == SubSeq(LogEvents', Pushed + 1, Pushed')

\* The number of records at time t in the Messages events of es.
RecordsAt(t, es) ==
    Cardinality({i \in 1..Len(RecordsOf(es)) : RecordsOf(es)[i][1] = t})

\* C12: a call of CaptureOperator.pull_internal_progress leaves no batch in
\* the input, pushes one Messages(time, batch) event for each batch that was
\* waiting, in arrival order and after the events already in the log, and adds
\* to consumed[0], for every time, the number of records of the Messages
\* events it pushed.
C12_CapturePull ==
    [][CapturePull =>
          /\ input' = <<>>
          /\ SubSeq(LogEvents', 1, Pushed) = LogEvents
          /\ Pushed' = Pushed + Len(input)
          /\ \A i \in 1..Len(input) :
                /\ NewEvents[i].tag = "Messages"
                /\ NewEvents[i].time = input[i].time
                /\ NewEvents[i].data = input[i].data
          /\ \A t \in Times :
                consumed'[t] - consumed[t] = RecordsAt(t, NewEvents)
      ]_vars

\* Capture has pulled a batch of one record at time 1 and then a batch of
\* two records at time 0, after the initial Progress.
C12_Witness ==
    /\ Pushed = 3 /\ input = <<>>
    /\ LogEvents[1].tag = "Progress"
    /\ LogEvents[2] = Messages(1, <<0>>)
    /\ LogEvents[3] = Messages(0, <<1, 2>>)
    /\ consumed[0] = 2 /\ consumed[1] = 1
    /\ firstPull = "after"

\* The events the replay step being taken has moved its handle over.
DrainedNow == SubSeq(LogEvents, cursor[1], cursor'[1] - 1)

\* C18 as stated, for any log: once a pull_internal_progress call has reported
\* the deltas of a Progress event, the records of every Messages event before
\* it in the log have been reported as produced.
C18_AnyLog ==
    rstate = "run" =>
        \A j \in 2..(cursor[1] - 1) :
            LogEvents[j].tag = "Progress" =>
                \A t \in Times :
                    produced[t] >= RecordsAt(t, SubSeq(LogEvents, 1, j - 1))

\* C18, amended: every pull_internal_progress call adds to produced[0] the
\* records of the Messages events it drains, and to internal[0] the deltas of
\* the Progress events it drains, and emits those records; so at all times the
\* records reported as produced are those of the Messages events, after the
\* first event of the log, up to the last event whose deltas were reported.
\* A Messages event that is the first event of the log is taken by
\* get_internal_summary and is never reported.
C18_ProducedWithData ==
    /\ [][ReplayPull =>
            /\ output' = output \o RecordsOf(DrainedNow)
            /\ \A t \in Times :
                  /\ produced'[t] - produced[t] = RecordsAt(t, DrainedNow)
                  /\ internal'[t] - internal[t] = SumFor(t, DrainedNow)
         ]_vars
    /\ [](rstate = "run" =>
            \A t \in Times :
                /\ produced[t] = RecordsAt(t, TakenAfterFirst)
                /\ internal[t] = SumFor(t, TakenAfterFirst))

\* After the initial Progress, a Messages event of two records at time 0 and
\* the Progress that retires time 0 have been drained.
C18_Witness ==
    /\ Drained
    /\ Pushed = 3
    /\ LogEvents[1] = Progress(<< <<0, 1>> >>)
    /\ LogEvents[2].tag = "Messages" /\ LogEvents[2].time = 0
    /\ Len(LogEvents[2].data) = 2
    /\ LogEvents[3] = Progress(<< <<0, 0 - 1>> >>)
    /\ produced[0] = 2 /\ internal[0] = 0 - 1
    /\ Len(output) = 2

\* ------------------------------------------------------------------ SpecLink

\* The events a hand-written producer pushes as its n-th event.
RawEvents(n) ==
    {Start, Progress(<<>>), Progress(<< <<0, 1>> >>)}
        \cup {Messages(t, <<n>>) : t \in Times}

\* handle1.push(e), called on the handle itself
RawPush(e) ==
    /\ Len(links) - 1 < MaxEvents
    /\ LET r == LinkPush(links, handle1, e)
       IN  /\ links' = r.links
           /\ handle1' = r.handle
    /\ UNCHANGED <<cursor, captureVars, replayVars, rawVars, streamVars>>

\* let handle2 = handle1.clone(); let handle3 = handle1.clone();
CloneHandles ==
    /\ clonedAt = 0
    /\ clonedAt' = handle1
    /\ cursor' = [c \in 1..2 |-> handle1]
    /\ UNCHANGED <<links, handle1, captureVars, replayVars, lastRet, seen, streamVars>>

\* next() on consumer handle c
RawNext(c) ==
    /\ clonedAt # 0
    /\ LET r == LinkNext(links, cursor[c])
       IN  /\ links' = r.links
           /\ cursor' = [cursor EXCEPT ![c] = r.handle]
           /\ lastRet' = [lastRet EXCEPT ![c] = r.ret]
           /\ seen' = [seen EXCEPT ![c] = @ \o r.ret]
    /\ UNCHANGED <<handle1, captureVars, replayVars, clonedAt, streamVars>>

NextLink ==
    \/ \E e \in RawEvents(Len(links) - 1) : RawPush(e)
    \/ CloneHandles
    \/ \E c \in 1..2 : RawNext(c)

SpecLink == Init /\ [][NextLink]_vars

\* The events appended after the node the consumers were cloned from.
AfterClone == [i \in 1..(Len(links) - clonedAt) |-> links[clonedAt + i].event]

\* C3: fan-out.  Each of two consumer handles cloned from one node returns the
\* events appended after that node in append order, each exactly once, and has
\* returned all of them when it finds no successor; a next() on one handle
\* changes neither the other handle nor what the other handle will return.
C3_FanOut ==
    /\ [](clonedAt # 0 =>
            \A c \in 1..2 :
                /\ Len(seen[c]) <= Len(AfterClone)
                /\ \A i \in 1..Len(seen[c]) : seen[c][i] = AfterClone[i]
                /\ links[cursor[c]].next = 0 => seen[c] = AfterClone)
    /\ [][\A c \in 1..2 : RawNext(c) =>
            \A o \in (1..2) \ {c} :
                /\ cursor'[o] = cursor[o]
                /\ seen'[o] = seen[o]
                /\ Chain(links', cursor'[o]) = Chain(links, cursor[o])
         ]_vars

\* Cloned after one event, both handles have returned the two later events,
\* reached by different interleavings with the pushes.
C3_Witness ==
    /\ clonedAt = 2
    /\ Len(AfterClone) = 2
    /\ seen[1] = AfterClone /\ seen[2] = AfterClone
    /\ lastRet[1] # <<>> /\ lastRet[2] = <<>>

\* C8: next() on the in-memory log returns none exactly when the held node has
\* no successor, and then leaves the handle where it is; otherwise it moves
\* the handle one node forward and returns that node's event; no node is
\* changed.  An event pushed after a none result is the one the next call
\* returns.
C8_Poll ==
    /\ [][\A c \in 1..2 : RawNext(c) =>
            /\ links' = links
            /\ IF links[cursor[c]].next = 0
               THEN lastRet'[c] = <<>> /\ cursor'[c] = cursor[c]
               ELSE /\ cursor'[c] = links[cursor[c]].next
                    /\ lastRet'[c] = <<links[links[cursor[c]].next].event>>
         ]_vars
    /\ [][\A c \in 1..2, e \in RawEvents(Len(links) - 1) :
            (clonedAt # 0 /\ lastRet[c] = <<>> /\ links[cursor[c]].next = 0
                /\ RawPush(e)) =>
            /\ links'[cursor'[c]].next # 0
            /\ links'[links'[cursor'[c]].next].event = e
         ]_vars

\* A handle got none, an event was pushed, and its next call returned it.
C8_Witness ==
    /\ clonedAt = 1
    /\ Len(links) = 3
    /\ seen[1] = <<links[2].event>>
    /\ lastRet[1] = <<links[2].event>>
    /\ cursor[1] = 2
    /\ lastRet[2] = <<>> /\ cursor[2] = 3

\* The nodes a holder of node h can reach: h and the nodes after it.
RECURSIVE Reach(_, _)
Reach(ls, h) == IF h = 0 THEN {} ELSE {h} \cup Reach(ls, ls[h].next)

\* The nodes the consumer handles other than c can reach (all of them for
\* c = 0); there is no consumer handle before the clone.
ConsumersReach(c) ==
    IF clonedAt = 0 THEN {}
    ELSE UNION {Reach(links, cursor[o]) : o \in (1..2) \ {c}}

\* C17 as stated: a push() changes no node a consumer handle can reach, and a
\* next() changes no node the producer handle or the other consumer handle can
\* reach; the calls change only the caller's handle.
C17_NoSharedMutation ==
    /\ [][\A e \in RawEvents(Len(links) - 1) : RawPush(e) =>
            /\ cursor' = cursor
            /\ \A i \in ConsumersReach(0) : links'[i] = links[i]
         ]_vars
    /\ [][\A c \in 1..2 : RawNext(c) =>
            /\ handle1' = handle1
            /\ \A o \in (1..2) \ {c} : cursor'[o] = cursor[o]
            /\ \A i \in ConsumersReach(c) \cup Reach(links, handle1) :
                  links'[i] = links[i]
         ]_vars

\* C17, amended: the log is append-only.  A push() changes one node, the one
\* the producer handle holds: it sets that node's successor link, which was
\* empty, to the new node; it changes no event and no link that was set, and
\* no consumer handle.  A next() changes no node and no handle but its own.
C17_AppendOnly ==
    /\ [][\A e \in RawEvents(Len(links) - 1) : RawPush(e) =>
            /\ cursor' = cursor
            /\ Len(links') = Len(links) + 1
            /\ \A i \in 1..Len(links) :
                  /\ links'[i].event = links[i].event
                  /\ links[i].next # 0 => links'[i].next = links[i].next
                  /\ links'[i] # links[i] =>
                        /\ i = handle1
                        /\ links'[i].next = Len(links) + 1
         ]_vars
    /\ [][\A c \in 1..2 : RawNext(c) =>
            /\ links' = links
            /\ handle1' = handle1
            /\ \A o \in (1..2) \ {c} : cursor'[o] = cursor[o]
         ]_vars

\* The node the consumers were cloned from got its successor while both held
\* it; one consumer has moved on since, the other still holds that node.
C17_Witness ==
    /\ clonedAt = 2
    /\ links[clonedAt].next = 3
    /\ cursor[1] = 3 /\ seen[1] = <<links[3].event>>
    /\ cursor[2] = clonedAt /\ seen[2] = <<>>

\* ------------------------------------------------------------------ byte-stream codec

\* The encoding copies the Event value itself, then the contents of its Vec.
\* In the model every field is one byte wide (T = u8, D = u8, a delta cut to
\* i8): the header is <<discriminant, time, vec.len()>>.
HeaderLen == 3

ToByte(i) == i % 256
FromByte(b) == IF b >= 128 THEN b - 256 ELSE b

TagOf(e) ==
    CASE e.tag = "Start" -> 0
      [] e.tag = "Progress" -> 1
      [] e.tag = "Messages" -> 2

RECURSIVE EntombPairs(_)
EntombPairs(vec) ==
    IF vec = <<>> THEN <<>>
    ELSE <<ToByte(vec[1][1]), ToByte(vec[1][2])>> \o EntombPairs(Tail(vec))

\* abomonation::encode(&event, &mut bytes): the bytes appended.
Encode(e) ==
    CASE e.tag = "Start" -> <<TagOf(e), 0, 0>>
      [] e.tag = "Progress" ->
            <<TagOf(e), 0, Len(e.updates)>> \o EntombPairs(e.updates)
      [] e.tag = "Messages" ->
            <<TagOf(e), ToByte(e.time), Len(e.data)>>
                \o [i \in 1..Len(e.data) |-> ToByte(e.data[i])]

\* The bytes the Vec of an event with this header occupies after the header.
PayloadLen(tag, n) == IF tag = 1 THEN 2 * n ELSE IF tag = 2 THEN n ELSE 0

\* The event of a header and the n elements after it that p holds.
Exhumed(tag, time, n, p) ==
    CASE tag = 0 -> Start
      [] tag = 1 ->
            Progress([i \in 1..n |-> <<p[2 * i - 1], FromByte(p[2 * i])>>])
      [] tag = 2 -> Messages(time, [i \in 1..n |-> p[i]])

\* A decode that does not check that the Vec's contents are all there.
DecodeEager(bytes) ==
    IF Len(bytes) < HeaderLen \/ bytes[1] > 2 THEN <<>>
    ELSE LET tag == bytes[1]
             p == SubSeq(bytes, HeaderLen + 1, Len(bytes))
             have == IF tag = 1 THEN Len(p) \div 2 ELSE Len(p)
             n == IF bytes[3] <= have THEN bytes[3] ELSE have
             size == PayloadLen(tag, n)
         IN  <<[event |-> Exhumed(tag, bytes[2], n, p),
                rest |-> SubSeq(p, size + 1, Len(p))]>>

\* abomonation::decode::<Event<T,D>>(bytes): <<>> for None, or the event and
\* the bytes left after it.  None when the bytes are fewer than the Event
\* value, or fewer than its Vec needs after that.  EventWriter writes no
\* other discriminant than 0, 1, 2.
Decode(bytes) ==
    IF Len(bytes) < HeaderLen \/ bytes[1] > 2 THEN <<>>
    ELSE LET tag == bytes[1]
             n == bytes[3]
             size == PayloadLen(tag, n)
             p == SubSeq(bytes, HeaderLen + 1, Len(bytes))
         IN  IF size > Len(p) THEN <<>>
             ELSE <<[event |-> Exhumed(tag, bytes[2], n, p),
                     rest |-> SubSeq(p, size + 1, Len(p))]>>

\* ------------------------------------------------------------------ EventWriter

\* What write_all(buf) can do: write all of buf and return Ok, or write fewer
\* bytes than buf holds and return the error of the write that failed.
WriteResults(buf) ==
    {[ok |-> TRUE, n |-> Len(buf)]}
        \cup {[ok |-> FALSE, n |-> k] : k \in 0..(Len(buf) - 1)}

\* A push that does not clear the buffer after the write.
WriterPushNoClear(e, res) ==
    /\ ~wpanic
    /\ Len(written) < MaxWrites
    /\ LET buf == wbuffer \o Encode(e)
       IN  /\ stream' = stream \o SubSeq(buf, 1, res.n)
           /\ wbuffer' = buf
    /\ writes' = writes + 1
    /\ IF res.ok
       THEN written' = Append(written, e) /\ wpanic' = FALSE
       ELSE written' = written /\ wpanic' = TRUE
    /\ UNCHANGED <<linkVars, captureVars, replayVars, rawVars, readerVars>>

\* EventWriter::push: encode into the buffer, write_all the buffer, clear it.
\* The unwrap() of a failed write_all panics: the push does not return, the
\* buffer is not cleared, and the writer is not used again.
WriterPush(e, res) ==
    /\ ~wpanic
    /\ Len(written) < MaxWrites
    /\ LET buf == wbuffer \o Encode(e)
       IN  /\ stream' = stream \o SubSeq(buf, 1, res.n)
           /\ wbuffer' = IF res.ok THEN <<>> ELSE buf
    /\ writes' = writes + 1
    /\ IF res.ok
       THEN written' = Append(written, e) /\ wpanic' = FALSE
       ELSE written' = written /\ wpanic' = TRUE
    /\ UNCHANGED <<linkVars, captureVars, replayVars, rawVars, readerVars>>

\* ------------------------------------------------------------------ EventReader

\* The bytes of buff1 from the consumed offset on.
Unread(b1, c) == SubSeq(b1, c + 1, Len(b1))

\* An offset that counts the decoded event's bytes from the start of buff1.
AdvanceByLength(rd, rest) == Len(rd.buff1) - rd.consumed - Len(rest)

\* self.consumed = self.valid - rest.len();
Advance(rd, rest) == rd.valid - Len(rest)

\* A shift that leaves the buffers and the offset as they are.
ShiftNone(rd) == rd

\* A shift that keeps the consumed bytes in buff1.
ShiftWhole(rd) ==
    IF rd.consumed > 0
    THEN [buff1 |-> rd.buff1,
          buff2 |-> rd.buff1,
          consumed |-> 0,
          valid |-> Len(rd.buff1)]
    ELSE rd

\* if self.consumed > 0 { buff2.clear(); buff2.write_all(&buff1[consumed..]);
\* swap(buff1, buff2); valid = buff1.len(); consumed = 0; }
Shift(rd) ==
    IF rd.consumed > 0
    THEN [buff1 |-> Unread(rd.buff1, rd.consumed),
          buff2 |-> rd.buff1,
          consumed |-> 0,
          valid |-> Len(Unread(rd.buff1, rd.consumed))]
    ELSE rd

\* A fill that throws the buffered bytes away when the read fails.
FillResetOnError(rd, res) ==
    IF res.ok
    THEN [rd EXCEPT !.buff1 = @ \o res.data, !.valid = Len(rd.buff1 \o res.data)]
    ELSE [rd EXCEPT !.buff1 = <<>>, !.valid = 0]

\* A fill that appends the bytes read and leaves valid as it is.
FillStaleValid(rd, res) ==
    IF res.ok THEN [rd EXCEPT !.buff1 = @ \o res.data] ELSE rd

\* if let Ok(len) = self.reader.read(&mut self.bytes[..]) {
\*     buff1.write_all(&bytes[..len]); valid = buff1.len(); }
Fill(rd, res) ==
    IF res.ok
    THEN [rd EXCEPT !.buff1 = @ \o res.data, !.valid = Len(rd.buff1 \o res.data)]
    ELSE rd

\* EventReader::next on the reader rd = [buff1, buff2, consumed, valid], where
\* a read on the source would give res = [ok, data].  The result holds the
\* reader after the call, what the call returns and the reads it made.
ReaderNext(rd, res) ==
    LET d == Decode(Unread(rd.buff1, rd.consumed))
    IN  IF d # <<>>
        THEN [rd |-> [rd EXCEPT !.consumed = Advance(rd, d[1].rest)],
              ret |-> <<d[1].event>>,
              reads |-> 0]
        ELSE [rd |-> Fill(Shift(rd), res), ret |-> <<>>, reads |-> 1]

\* What one read on the source can give: an error, or the next k bytes of
\* those written and not yet handed out, for any k from 0 up.
ReadResults ==
    {[ok |-> FALSE, data |-> <<>>]}
        \cup {[ok |-> TRUE, data |-> SubSeq(stream, srcPos + 1, srcPos + k)] :
                k \in 0..(Len(stream) - srcPos)}

\* EventReader::next is called.
ReaderStep(res) ==
    LET r == ReaderNext([buff1 |-> buff1, buff2 |-> buff2,
                         consumed |-> rdConsumed, valid |-> valid], res)
        got == IF r.reads > 0 THEN Len(res.data) ELSE 0
    IN  /\ buff1' = r.rd.buff1
        /\ buff2' = r.rd.buff2
        /\ rdConsumed' = r.rd.consumed
        /\ valid' = r.rd.valid
        /\ readRet' = r.ret
        /\ lastRead' = IF r.reads = 0 THEN "none" ELSE IF res.ok THEN "ok" ELSE "err"
        /\ decoded' = decoded \o r.ret
        /\ srcPos' = srcPos + got
        /\ maxRead' = IF got > maxRead THEN got ELSE maxRead
        /\ UNCHANGED <<linkVars, captureVars, replayVars, rawVars, writerVars>>

\* The events pushed to the writer as its n-th event.
StreamEvents(n) ==
    {Start, Progress(<<>>), Progress(<< <<0, 1>>, <<1, -1>> >>),
     Messages(1, <<n>>), Messages(0, <<n, n + 1>>)}

NextStream ==
    \/ \E e \in StreamEvents(Len(written)) :
          \E res \in WriteResults(wbuffer \o Encode(e)) : WriterPush(e, res)
    \/ \E res \in ReadResults : ReaderStep(res)

SpecStream == Init /\ [][NextStream]_vars

\* The next event the reader has not returned yet, as <<>> or <<event>>.
Awaited ==
    IF Len(decoded) < Len(written) THEN <<written[Len(decoded) + 1]>> ELSE <<>>

\* buff1 holds, from the consumed offset, the whole encoding of the awaited event.
HoldsAwaited ==
    /\ Awaited # <<>>
    /\ Len(Unread(buff1, rdConsumed)) >= Len(Encode(Awaited[1]))

\* C4: chunked read.  Whatever the sizes of the reads, a call of next() made
\* before buff1 holds the whole encoding of the awaited event returns none,
\* and a call made once it does returns exactly the event that was pushed.
C4_ChunkedRead ==
    [][\A res \in ReadResults : ReaderStep(res) =>
          IF HoldsAwaited THEN readRet' = Awaited ELSE readRet' = <<>>
      ]_vars

\* The seven bytes of a Progress event arrived at most one byte per read, and
\* the event has been returned.
C4_Witness ==
    /\ written = <<Progress(<< <<0, 1>>, <<1, -1>> >>)>>
    /\ maxRead = 1
    /\ readRet = <<written[1]>>
    /\ decoded = written

\* The encodings of the events of es, one after the other.
RECURSIVE EncodingOf(_)
EncodingOf(es) ==
    IF es = <<>> THEN <<>> ELSE Encode(es[1]) \o EncodingOf(Tail(es))

\* C13: a push of the EventWriter makes one write_all call; when the write
\* succeeds the stream gains exactly the encoding of the pushed event and the
\* buffer is left empty, so that while no push has failed the stream holds the
\* encodings of the pushed events in push order; when the write fails the
\* push panics instead of returning, and nothing is pushed after that.
C13_WriterPush ==
    /\ [][\A e \in StreamEvents(Len(written)) :
            \A res \in WriteResults(wbuffer \o Encode(e)) :
                WriterPush(e, res) =>
                    /\ writes' = writes + 1
                    /\ IF res.ok
                       THEN /\ stream' = stream \o Encode(e)
                            /\ wbuffer' = <<>>
                            /\ written' = Append(written, e)
                            /\ ~wpanic'
                       ELSE /\ wpanic'
                            /\ written' = written
         ]_vars
    /\ [](~wpanic => wbuffer = <<>> /\ stream = EncodingOf(written))
    /\ [][wpanic => wpanic' /\ written' = written /\ stream' = stream]_vars

\* Two events with contents have been pushed, each with one write.
C13_Witness ==
    /\ ~wpanic
    /\ Len(written) = 2 /\ writes = 2
    /\ written[1].tag = "Messages" /\ written[2].tag = "Progress"
    /\ Len(stream) = Len(Encode(written[1])) + Len(Encode(written[2]))
    /\ Len(stream) > 2 * HeaderLen

C15_ShiftAndRead ==
    [][\A res \in ReadResults :
          (ReaderStep(res) /\ ~HoldsAwaited) =>
              /\ rdConsumed' = 0
              /\ lastRead' # "none"
              /\ buff1' = Unread(buff1, rdConsumed) \o res.data
              /\ srcPos' = srcPos + Len(res.data)
              /\ readRet' = <<>>
              /\ decoded' = decoded
      ]_vars

\* The first event was returned from a buffer that also held a part of the
\* second; the call after it moved that part to the front and read the rest,
\* which completed the second event, and returned none.
C15_Witness ==
    /\ Len(written) = 2 /\ decoded = <<written[1]>>
    /\ readRet = <<>> /\ lastRead = "ok"
    /\ rdConsumed = 0
    /\ buff1 = Encode(written[2])
    /\ Len(buff2) > Len(Encode(written[1]))
    /\ Len(buff2) < Len(stream)
    /\ srcPos = Len(stream)

\* The EventReader's fields, as the record ReaderNext works on.
ReaderNow ==
    [buff1 |-> buff1, buff2 |-> buff2, consumed |-> rdConsumed, valid |-> valid]

\* C16: a call of EventReader.next whose read fails returns none and leaves
\* the reader as a read of zero bytes would: the bytes from the consumed offset
\* on at the front of buff1, nothing appended, the offset 0, valid the length
\* of buff1, nothing taken from the source.  The call after it reads the
\* source again, and the bytes that read gives are appended.
C16_ReadError ==
    /\ [][\A res \in ReadResults :
            (ReaderStep(res) /\ lastRead' = "err") =>
                /\ readRet' = <<>>
                /\ decoded' = decoded
                /\ srcPos' = srcPos
                /\ buff1' = Unread(buff1, rdConsumed)
                /\ rdConsumed' = 0
                /\ valid' = Len(buff1')
                /\ ReaderNow' = ReaderNext(ReaderNow, [ok |-> TRUE, data |-> <<>>]).rd
         ]_vars
    /\ [][\A res \in ReadResults :
            (lastRead = "err" /\ ReaderStep(res)) =>
                /\ lastRead' # "none"
                /\ buff1' = buff1 \o res.data
                /\ srcPos' = srcPos + Len(res.data)
         ]_vars

\* A read failed while buff1 held the first bytes of an event, after an
\* earlier event had been returned.
C16_Witness ==
    /\ lastRead = "err"
    /\ Len(decoded) = 1 /\ Len(written) = 2
    /\ readRet = <<>>
    /\ buff1 # <<>>
    /\ srcPos < Len(stream)

\* C19: whatever events are pushed to the EventWriter, and however the source
\* hands the written bytes to the reads (in pieces of any size, with reads of
\* zero bytes and failed reads in between), the events EventReader.next has
\* returned so far are the first of the events pushed, in push order: none
\* skipped, repeated, out of order or changed.
C19_PrefixOfPushed ==
    /\ Len(decoded) <= Len(written)
    /\ \A i \in 1..Len(decoded) : decoded[i] = written[i]

\* Two events were pushed and both returned, the bytes having come at most two
\* per read, the second event from a buffer shifted after the first.
C19_Witness ==
    /\ Len(written) = 2 /\ decoded = written
    /\ written[1].tag = "Progress" /\ written[1].updates # <<>>
    /\ written[2].tag = "Messages"
    /\ maxRead = 2
    /\ buff1 = Encode(written[2])
    /\ Len(buff2) > Len(buff1)

\* C20: in every state of an EventReader valid is the length of buff1 and the
\* consumed offset lies between 0 and valid, so the offset a successful decode
\* computes, valid less the length of the undecoded rest, is never negative
\* and never beyond the buffered bytes.
C20_ValidOffset ==
    /\ valid = Len(buff1)
    /\ 0 <= rdConsumed /\ rdConsumed <= valid

\* The reader has returned its second event, from a buffer that had been
\* shifted and refilled after the first, and the offset has reached valid.
C20_Witness ==
    /\ Len(decoded) = 2
    /\ readRet # <<>> /\ lastRead = "none"
    /\ buff2 # <<>> /\ Len(buff2) > Len(buff1)
    /\ rdConsumed > HeaderLen /\ rdConsumed = valid
    /\ valid = Len(buff1)

\* ------------------------------------------------------------------ SpecA

\* tests::handle: (0..10).to_stream(builder).capture_into(handle1), replayed
\* from handle2.  The source holds one capability at time 0, sends the records
\* 0..9 at time 0 and drops the capability.
NumRecordsA == 10

CreateA == [t \in Times |-> IF t = 0 THEN 1 ELSE 0]
RetireA == [t \in Times |-> IF t = 0 THEN 0 - 1 ELSE 0]

\* The capture scope is built and initialised first: the frontier the
\* scheduler hands to set_external_summary holds the source's capability.
SetExternalSummaryA == SetExternalSummary(CreateA)

\* The operators are stepped only after the scope is initialised.  The source
\* sends its next records, in a batch of any size; its last batch takes all
\* the records left.
InputArriveA ==
    /\ summarySet
    /\ \E k \in 1..NumRecordsA :
          /\ Committed < MaxBatchesA \/ sent + k = NumRecordsA
          /\ Arrive(0, k, NumRecordsA, MaxBatchesA + 1)

CapturePullA == summarySet /\ CapturePull

\* Once every record is sent and consumed the frontier at the capture input
\* moves past time 0, and the scheduler reports it.
PushExternalProgressA ==
    /\ summarySet
    /\ sent = NumRecordsA /\ input = <<>>
    /\ Len(links) >= 2 /\ links[Len(links)].event # Progress(IntoInner(RetireA))
    /\ PushExternalProgress(RetireA)

\* The replay scope is built after the capture scope.
GetInternalSummaryA == summarySet /\ GetInternalSummary

NextA ==
    \/ SetExternalSummaryA
    \/ InputArriveA
    \/ CapturePullA
    \/ PushExternalProgressA
    \/ GetInternalSummaryA
    \/ ReplayPull

\* The scheduler keeps invoking every operator, and the source keeps sending.
FairnessA ==
    /\ WF_vars(SetExternalSummaryA)
    /\ WF_vars(InputArriveA)
    /\ WF_vars(CapturePullA)
    /\ WF_vars(PushExternalProgressA)
    /\ WF_vars(GetInternalSummaryA)
    /\ WF_vars(ReplayPull)

SpecA == Init /\ [][NextA]_vars /\ FairnessA

RecordsA == [i \in 1..NumRecordsA |-> <<0, i - 1>>]

\* C5: scenario A.  A Replay operator that keeps being invoked eventually has
\* emitted the records 0..9, in order, at time 0, and from then on its net
\* capability at time 0 is zero for good; the capability is not retired before
\* the records are out.
C5_ScenarioA ==
    /\ <>[](output = RecordsA /\ initial[0] + internal[0] = 0)
    /\ [](rstate = "run" /\ initial[0] + internal[0] = 0 => output = RecordsA)

\* The log is exactly Progress([(0,1)]), Messages(0,[0..9]), Progress([(0,-1)])
\* and Replay has drained it.
C5_Witness ==
    /\ LogEvents = <<Progress(<< <<0, 1>> >>),
                     Messages(0, [i \in 1..NumRecordsA |-> i - 1]),
                     Progress(<< <<0, 0 - 1>> >>)>>
    /\ Drained
    /\ output = RecordsA
    /\ initial[0] = 1 /\ internal[0] = 0 - 1

====
